---- MODULE Spec2Model ----
(***************************************************************************)
(* Model of the host (CPU) allocation layer and the Node-keyed cache of    *)
(* custos: the thread-local call-site counter COUNT, the thread-local      *)
(* table CPU_CACHE.nodes, the CPU devices with their recorded pointers     *)
(* (ptrs), the heap the pointers refer to and the buffer handles user code *)
(* holds.  Addresses are reused by the allocator once they are freed.      *)
(* A second part models the Alloc layer of devices/cpu and devices/cuda    *)
(* (host and device memory with their contents, the Buffers held), the     *)
(* type-erased cache of a CPU and the life of a CUDA device.               *)
(* A third part models the globals of the device backends: the device     *)
(* list of the OpenCL backend, its memory objects with the table          *)
(* output_nodes, the count of the CUDA devices, and the Matrix wrapper.    *)
(***************************************************************************)
EXTENDS Integers, Sequences, FiniteSets, TLC

\* ------------------------------------------------------------------ bounds
MaxAddr == 2        \* heap addresses are 1..MaxAddr
MaxCount == 2       \* cap of the call-site counter
MaxPtrs == 2        \* cap on the length of a device's ptrs list
MaxHost == 2        \* host addresses of the Alloc layer are 1..MaxHost
MaxLen == 2         \* longest buffer and longest data slice
MaxDev == 2         \* device-side allocations are 1..MaxDev
MaxCL == 3          \* the most GPU devices a platform reports
MaxSync == 3        \* cap on the runs of the OpenCL device discovery
MaxInst == 2        \* the most InternCudaDevice instances alive at a time
MaxRc == 2          \* the most CudaDevice handles on one instance
MaxDC == 4          \* cap of the global CUDA device count
MaxDim == 3         \* the largest dimension of a Matrix
MaxN == 4           \* the longest array or Vec a Matrix is built from
MaxMem == 3         \* the most OpenCL memory objects the driver creates
MaxNode == 2        \* the Nodes of the OpenCL cache are 1..MaxNode
MaxRelease == 2     \* cap of the releases counted for one memory object

Addr == 1..MaxAddr
\* the slots a program keeps its CPU devices in: one device, or two
OneDev == {"cpu1"}
TwoDevs == {"cpu1", "cpu2"}
\* out_dims a caller may request: 1x4 (length 4), 2x4 (length 8)
DimsSet == {<<1, 4>>, <<2, 4>>}
\* lengths a caller may pass to alloc / with_data / alloc_with_vec
Lens == {0, 4}

VARIABLES
    count,      \* COUNT: thread-local call-site counter
    nodes,      \* CPU_CACHE.nodes: Node -> RawInfo (ptr, dims); "by" is a ghost
                \* field: the device whose get inserted the entry
    live,       \* heap: addresses of the allocations not yet freed
    devs,       \* every CPU slot: whether a CPU lives in it, and its ptrs list
    buf,        \* the Buffer user code holds: the one the most recent allocating
                \* call returned (its ptr and the flag of its origin)
    dfree,      \* ghost: the last call freed an address that was not allocated
    halted,     \* the process was aborted by the allocator
    rp          \* ghost: where a program that replays a pass of gets stands:
                \* the counter's value the pass started at (start), the dims
                \* and the returned address of each get of the first pass
                \* (log), and the gets of the second pass made so far (k)

\* ---- the Alloc layer of the devices (devices/cpu, devices/cuda)
VARIABLES
    hmem,       \* host memory: the contents of every allocated host block
    held,       \* the Buffers user code holds, one per slot
    res,        \* what the last call of the Alloc layer returned, or its panic
    ct,         \* Cache<CPU>.nodes: Node -> RawCpuBuf (the erased records)
    dmem,       \* device memory: the contents of every block the CUDA /
                \* OpenCL driver has allocated and not freed
    cdev        \* the CUDA device: where its life stands (st), which of the two
                \* device types it is (kind), whether its cuBLAS handle and
                \* its stream exist, and its cache (Ident -> CUDA pointer)

\* ---- the allocator's view of the heap of libs/cpu
VARIABLES
    sz          \* the element count of every allocation of live, in the
                \* programs that keep track of it

\* ---- the globals of the OpenCL backend (libs/opencl/cl_devices.rs)
VARIABLES
    current_devices,    \* CL_DEVICES.current_devices
    clres,              \* what the last call on CL_DEVICES returned
    syncs               \* ghost: how many times the discovery has run

\* ---- the CUDA devices of libs/cuda (libs/cuda/cuda_device.rs)
VARIABLES
    device_count,       \* the global behind get_device_count()
    inner               \* the InternCudaDevice instances that live, each with
                        \* the strong count of its Rc: the CudaDevice handles

\* ---- the Matrix wrapper (matrix.rs)
VARIABLES
    matrix              \* the Matrix the last constructor call returned: its
                        \* dims and the len of its data Buffer, or the panic

\* ---- the memory objects of the OpenCL backend (libs/opencl/cl_device.rs)
VARIABLES
    output_nodes,       \* CL_CACHE.output_nodes: Node -> memory object
    clmem,              \* ghost: every memory object the driver has created,
                        \* with the number of release_mem_object calls on it
    clheld              \* the memory objects user code holds a Buffer of
                        \* (Buffer is Copy: a handle once returned stays)

\* the globals of the device backends, and the Matrix user code holds
glob == <<current_devices, clres, syncs, device_count, inner, matrix,
          output_nodes, clmem, clheld>>

\* the variables of the Alloc layer
ext == <<hmem, held, res, ct, dmem, cdev>>

vars == <<count, nodes, live, devs, buf, dfree, halted, rp, hmem, held, res, ct, dmem, cdev, sz,
          current_devices, clres, syncs, device_count, inner, matrix,
          output_nodes, clmem, clheld>>

\* ------------------------------------------------------------- helpers
Range(s) == {s[i] : i \in DOMAIN s}

Size(dims) == dims[1] * dims[2]

\* user code holds no buffer (0 is no heap address)
NoBuf == [ptr |-> 0, flag |-> "None"]

\* no call of the Alloc layer has returned yet
NoRes == [op |-> "none", fail |-> "none", val |-> << >>]

\* the places user code keeps its Buffers in
Slots == {"a", "b"}

\* no Buffer is held (a Buffer has a host pointer, a device-side pointer and
\* a len)
NoHandle == [dev |-> "none", ptr |-> 0, cu |-> 0, len |-> 0]

\* no CudaDevice has been built
NoCuda == [st |-> "absent", kind |-> "none", handle |-> FALSE, stream |-> FALSE,
           cache |-> << >>]

\* no Matrix has been built
NoMatrix == [op |-> "none", fail |-> "none", dims |-> <<0, 0>>, len |-> 0]

\* no call has been made on CL_DEVICES
NoCLRes == [op |-> "none", fail |-> "none", val |-> 0]

\* no pass of gets is being observed
NoPass == [phase |-> "none", start |-> 0, log |-> << >>, k |-> 0]

\* mutant of Remove: the keys stay in the table
RemoveNone(tbl, ks) == tbl

\* mutant of NodeEq: the call-site index alone decides
NodeEqIdxOnly(a, b) == a.idx = b.idx

\* #[derive(PartialEq, Eq, Hash)] on Node: both fields take part
NodeEq(a, b) == a.idx = b.idx /\ a.out_dims = b.out_dims

\* mutant of NodeNew: the counter moves on before the node reads it
NodeNewLate(c, out_dims) ==
    [node |-> [idx |-> c + 1, out_dims |-> out_dims], count |-> c + 1]

\* Node::new: the node carries the counter's value, then the counter moves on
NodeNew(c, out_dims) ==
    [node |-> [idx |-> c, out_dims |-> out_dims], count |-> c + 1]

\* mutant of Insert: the entries the table had are lost
InsertAlone(tbl, node, info) == [k \in {node} |-> info]

\* mutant of Lookup: a key is found when its dims differ from the node's
LookupOtherDims(tbl, node) ==
    {k \in DOMAIN tbl : k.idx = node.idx /\ k.out_dims # node.out_dims}

\* mutant of Lookup: no stored key is ever found
LookupNone(tbl, node) == {}

\* HashMap::get on the table: the stored keys equal to node
Lookup(tbl, node) == {k \in DOMAIN tbl : NodeEq(k, node)}

\* HashMap::insert
Insert(tbl, node, info) ==
    [k \in (DOMAIN tbl \cup {node}) |-> IF k = node THEN info ELSE tbl[k]]

\* HashMap::remove of every key in ks
Remove(tbl, ks) == [k \in (DOMAIN tbl \ ks) |-> tbl[k]]

\* the addresses the allocator may hand out: those not allocated now
FreeAddrs(heap) == Addr \ heap

Live(d) == devs[d].st = "live"

InitWith(slots) ==
    /\ count = 0
    /\ nodes = << >>
    /\ live = {}
    /\ devs = [d \in slots |-> [st |-> "absent", ptrs |-> << >>]]
    /\ buf = NoBuf
    /\ dfree = FALSE
    /\ halted = FALSE
    /\ rp = NoPass
    /\ hmem = << >>
    /\ held = [s \in Slots |-> NoHandle]
    /\ res = NoRes
    /\ ct = << >>
    /\ dmem = << >>
    /\ cdev = NoCuda
    /\ sz = << >>
    /\ current_devices = << >>
    /\ clres = NoCLRes
    /\ syncs = 0
    /\ device_count = 0
    /\ inner = << >>
    /\ matrix = NoMatrix
    /\ output_nodes = << >>
    /\ clmem = << >>
    /\ clheld = {}

\* CPU::new
NewCPU(d) ==
    /\ ~halted
    /\ devs[d].st = "absent"
    /\ devs' = [devs EXCEPT ![d] = [st |-> "live", ptrs |-> << >>]]
    /\ dfree' = FALSE
    /\ UNCHANGED <<count, nodes, live, buf, halted>>

\* set_count(v): the call-site counter is set by the caller
SetCount(v) ==
    /\ ~halted
    /\ count # v
    /\ count' = v
    /\ dfree' = FALSE
    /\ UNCHANGED <<nodes, live, devs, buf, halted>>

\* mutant of DeviceAlloc: the 'safe' build, where no pointer is recorded
DeviceAllocSafe(d, len) ==
    /\ ~halted
    /\ Live(d)
    /\ IF len = 0
       THEN UNCHANGED <<live, buf>>
       ELSE \E a \in FreeAddrs(live) :
              /\ live' = live \cup {a}
              /\ buf' = [ptr |-> a, flag |-> "None"]
    /\ dfree' = FALSE
    /\ UNCHANGED <<count, nodes, devs, halted>>

\* Device::alloc / with_data / alloc_with_vec of InternCPU without the
\* 'safe' feature: assert on the length, allocate, record the pointer in ptrs
DeviceAlloc(d, len) ==
    /\ ~halted
    /\ Live(d)
    /\ IF len = 0
       THEN UNCHANGED <<live, devs, buf>>
       ELSE /\ Len(devs[d].ptrs) < MaxPtrs
            /\ \E a \in FreeAddrs(live) :
                 /\ live' = live \cup {a}
                 /\ devs' = [devs EXCEPT ![d].ptrs = Append(@, a)]
                 /\ buf' = [ptr |-> a, flag |-> "None"]
    /\ dfree' = FALSE
    /\ UNCHANGED <<count, nodes, halted>>

Alloc(d, len) == DeviceAlloc(d, len)

WithData(d, len) == DeviceAlloc(d, len)

AllocWithVec(d, len) == DeviceAlloc(d, len)

\* CPUCache::add_node: Matrix::new allocates dims.0 * dims.1 elements through
\* the device and the pointer is inserted under node
AddNode(d, node) ==
    /\ Len(devs[d].ptrs) < MaxPtrs
    /\ \E a \in FreeAddrs(live) :
         /\ live' = live \cup {a}
         /\ devs' = [devs EXCEPT ![d].ptrs = Append(@, a)]
         /\ nodes' = Insert(nodes, node, [ptr |-> a, dims |-> node.out_dims, by |-> d])
         /\ buf' = [ptr |-> a, flag |-> "Cache"]

\* CPUCache::get
CacheGet(d, out_dims) ==
    /\ ~halted
    /\ Live(d)
    /\ count < MaxCount
    /\ LET nn == NodeNew(count, out_dims)
           found == Lookup(nodes, nn.node)
       IN /\ count' = nn.count
          /\ IF found # {}
             THEN LET matrix_info == nodes[CHOOSE k \in found : TRUE]
                  IN /\ buf' = [ptr |-> matrix_info.ptr, flag |-> "Cache"]
                     /\ UNCHANGED <<nodes, live, devs>>
             ELSE AddNode(d, nn.node)
    /\ dfree' = FALSE
    /\ UNCHANGED halted

\* Box::from_raw(ptr) dropped: the address goes back to the allocator; freeing
\* an address that is not allocated is undefined behaviour (ub)
FreeOne(st, ptr) ==
    [live |-> st.live \ {ptr}, nodes |-> st.nodes, ub |-> st.ub \/ ptr \notin st.live]

\* what the process does after a call that freed: it goes on, or, when the call
\* freed an address that was not allocated, the allocator may abort it
Outcome(st) ==
    /\ dfree' = st.ub
    /\ \/ /\ halted' = FALSE
          /\ live' = st.live
          /\ nodes' = st.nodes
       \/ /\ st.ub
          /\ halted' = TRUE
          /\ UNCHANGED <<live, nodes>>

\* DropBuf::drop_buf: frees b.ptr whatever the buffer is; user code gives the
\* buffer up with the call
DropBuf(d, b) ==
    /\ ~halted
    /\ Live(d)
    /\ b.ptr \in Addr
    /\ Outcome(FreeOne([live |-> live, nodes |-> nodes, ub |-> FALSE], b.ptr))
    /\ buf' = NoBuf
    /\ UNCHANGED <<count, devs>>

\* mutant of DeallocLoop: the entries are freed and stay in the table
RECURSIVE DeallocLoopKeep(_, _, _)
DeallocLoopKeep(contents, keys, st) ==
    IF keys = {} THEN st
    ELSE LET entry == CHOOSE k \in keys : TRUE
         IN DeallocLoopKeep(contents, keys \ {entry}, FreeOne(st, contents[entry].ptr))

\* Dealloc::dealloc_cache: every entry of a copy of the table is freed and
\* removed from the table
RECURSIVE DeallocLoop(_, _, _)
DeallocLoop(contents, keys, st) ==
    IF keys = {} THEN st
    ELSE LET entry == CHOOSE k \in keys : TRUE
             freed == FreeOne(st, contents[entry].ptr)
         IN DeallocLoop(contents, keys \ {entry},
                        [freed EXCEPT !.nodes = Remove(freed.nodes, {entry})])

DeallocCache ==
    /\ ~halted
    /\ Outcome(DeallocLoop(nodes, DOMAIN nodes,
                           [live |-> live, nodes |-> nodes, ub |-> FALSE]))
    /\ UNCHANGED <<count, devs, buf>>

\* mutant of DropLoop: the pointers are freed and their entries stay in the table
RECURSIVE DropLoopKeep(_, _, _)
DropLoopKeep(contents, ptrs, st) ==
    IF ptrs = << >> THEN st
    ELSE DropLoopKeep(contents, Tail(ptrs), FreeOne(st, Head(ptrs)))

\* impl Drop for CPU: every recorded pointer is freed and the entries of a copy
\* of the table that hold it are removed from the table; ptrs is cleared
RECURSIVE DropLoop(_, _, _)
DropLoop(contents, ptrs, st) ==
    IF ptrs = << >> THEN st
    ELSE LET ptr == Head(ptrs)
             freed == FreeOne(st, ptr)
             gone == {k \in DOMAIN contents : contents[k].ptr = ptr}
         IN DropLoop(contents, Tail(ptrs),
                     [freed EXCEPT !.nodes = Remove(freed.nodes, gone)])

DropCPU(d) ==
    /\ ~halted
    /\ Live(d)
    /\ Outcome(DropLoop(nodes, devs[d].ptrs,
                        [live |-> live, nodes |-> nodes, ub |-> FALSE]))
    /\ devs' = [devs EXCEPT ![d] = [st |-> "absent", ptrs |-> << >>]]
    /\ UNCHANGED <<count, buf>>

\* a call made outside of an observed pass
Call(A) == A /\ UNCHANGED rp /\ UNCHANGED ext /\ UNCHANGED <<sz, glob>>

Next ==
    \/ \E d \in DOMAIN devs : Call(NewCPU(d))
    \/ \E v \in 0..MaxCount : Call(SetCount(v))
    \/ \E d \in DOMAIN devs, len \in Lens : Call(Alloc(d, len))
    \/ \E d \in DOMAIN devs, len \in Lens : Call(WithData(d, len))
    \/ \E d \in DOMAIN devs, len \in Lens : Call(AllocWithVec(d, len))
    \/ \E d \in DOMAIN devs, dims \in DimsSet : Call(CacheGet(d, dims))
    \/ \E d \in DOMAIN devs : Call(DropBuf(d, buf))
    \/ Call(DeallocCache)
    \/ \E d \in DOMAIN devs : Call(DropCPU(d))

\* the cache alone: gets, dealloc_cache and device drops
NextCache ==
    \/ \E d \in DOMAIN devs : Call(NewCPU(d))
    \/ \E v \in 0..MaxCount : Call(SetCount(v))
    \/ \E d \in DOMAIN devs, dims \in DimsSet : Call(CacheGet(d, dims))
    \/ Call(DeallocCache)
    \/ \E d \in DOMAIN devs : Call(DropCPU(d))

\* ---- the cache and the sizes of its allocations
\* a call outside of an observed pass whose allocation, if it makes one, is a
\* boxed slice of len elements (Box::into_raw of a Vec of len elements); a
\* freed address leaves the allocator's table
Boxed(A, len) ==
    /\ A
    /\ sz' = [a \in live' |-> IF a \in live THEN sz[a] ELSE len]
    /\ UNCHANGED rp
    /\ UNCHANGED <<ext, glob>>

NextSized ==
    \/ \E d \in DOMAIN devs : Boxed(NewCPU(d), 0)
    \/ \E v \in 0..MaxCount : Boxed(SetCount(v), 0)
    \/ \E d \in DOMAIN devs, len \in Lens : Boxed(Alloc(d, len), len)
    \/ \E d \in DOMAIN devs, len \in Lens : Boxed(WithData(d, len), len)
    \/ \E d \in DOMAIN devs, len \in Lens : Boxed(AllocWithVec(d, len), len)
    \/ \E d \in DOMAIN devs, dims \in DimsSet : Boxed(CacheGet(d, dims), Size(dims))
    \/ \E d \in DOMAIN devs : Boxed(DropBuf(d, buf), 0)
    \/ Boxed(DeallocCache, 0)
    \/ \E d \in DOMAIN devs : Boxed(DropCPU(d), 0)

\* ---- a program that makes a pass of gets and then replays it
\* any calls come before the pass
Before == rp.phase = "none" /\ Next

\* the pass starts at the counter's current value
StartPass ==
    /\ rp.phase = "none"
    /\ ~halted
    /\ count < MaxCount
    /\ rp' = [NoPass EXCEPT !.phase = "first", !.start = count]
    /\ UNCHANGED <<count, nodes, live, devs, buf, dfree, halted>>
    /\ UNCHANGED <<ext, sz, glob>>

\* a get of the first pass: its dims and the address it returns are noted
FirstGet(d, dims) ==
    /\ rp.phase = "first"
    /\ CacheGet(d, dims)
    /\ rp' = [rp EXCEPT !.log = Append(@, [dims |-> dims, ptr |-> buf'.ptr])]
    /\ UNCHANGED <<ext, sz, glob>>

\* the counter is reset to the value the pass started at
Rewind ==
    /\ rp.phase = "first"
    /\ rp.log # << >>
    /\ SetCount(rp.start)
    /\ rp' = [rp EXCEPT !.phase = "second"]
    /\ UNCHANGED <<ext, sz, glob>>

\* the next get of the second pass: the dims of the first pass's get
SecondGet(d) ==
    /\ rp.phase = "second"
    /\ rp.k < Len(rp.log)
    /\ CacheGet(d, rp.log[rp.k + 1].dims)
    /\ rp' = [rp EXCEPT !.k = @ + 1]
    /\ UNCHANGED <<ext, sz, glob>>

\* dealloc_cache after a first pass of two gets
ClearAfterTwo ==
    /\ rp.phase = "first"
    /\ Len(rp.log) = 2
    /\ DeallocCache
    /\ rp' = [rp EXCEPT !.phase = "cleared"]
    /\ UNCHANGED <<ext, sz, glob>>

\* the counter is reset to the first call site's position
RewindCleared ==
    /\ rp.phase = "cleared"
    /\ SetCount(rp.start)
    /\ rp' = [rp EXCEPT !.phase = "third"]
    /\ UNCHANGED <<ext, sz, glob>>

\* the further get at the first call site's position, with the first get's dims
ThirdGet(d) ==
    /\ rp.phase = "third"
    /\ CacheGet(d, rp.log[1].dims)
    /\ rp' = [rp EXCEPT !.phase = "done"]
    /\ UNCHANGED <<ext, sz, glob>>

NextReplay ==
    \/ Before
    \/ StartPass
    \/ \E d \in DOMAIN devs, dims \in DimsSet : FirstGet(d, dims)
    \/ Rewind
    \/ \E d \in DOMAIN devs : SecondGet(d)
    \/ ClearAfterTwo
    \/ RewindCleared
    \/ \E d \in DOMAIN devs : ThirdGet(d)

Init == InitWith(OneDev)

InitTwo == InitWith(TwoDevs)

\* a program with one CPU device
Spec == Init /\ [][Next]_vars

\* a program with two CPU devices
SpecTwo == InitTwo /\ [][Next]_vars

\* a program with two CPU devices that only uses the cache
SpecCache == InitTwo /\ [][NextCache]_vars

\* a program with one CPU device whose allocations' sizes are tracked
SpecSized == Init /\ [][NextSized]_vars

\* a program with two CPU devices that makes a pass of gets and replays it
SpecReplay == InitTwo /\ [][NextReplay]_vars

\* ---------------------------------------------------------- Alloc layer
HAddr == 1..MaxHost

\* element values: 0 is the element type's default
Val == 0..1

\* the slices and vectors a caller may pass, the empty one included
DataSet == UNION {[1..n -> Val] : n \in 0..MaxLen}

\* S::LEN of the shapes a caller may allocate for: () and a shape of MaxLen
ShapeLens == {0, MaxLen}

Zeros(n) == [i \in 1..n |-> 0]

\* the process of the Alloc layer has not been aborted
Running == res.fail \notin {"abort", "nullwrite"}

Returned(op, val) == [op |-> op, fail |-> "none", val |-> val]

Panicked(op) == [op |-> op, fail |-> "panic", val |-> << >>]

\* mutant of CPUAlloc: the block is left as the allocator hands it out
CPUAllocRaw(mem, len, slen) ==
    IF len = 0
    THEN {[fail |-> "panic", ptr |-> 0, mem |-> mem]}
    ELSE LET n == IF slen > len THEN slen ELSE len
         IN {[fail |-> f, ptr |-> 0, mem |-> mem] : f \in {"nullwrite", "abort"}}
            \cup {[fail |-> "none", ptr |-> a, mem |-> (a :> c) @@ mem] :
                    a \in HAddr \ DOMAIN mem, c \in [1..n -> Val]}

\* Alloc::alloc of CPU on a heap mem, for a shape of S::LEN = slen: the
\* outcomes.  A len of 0 panics; the block is as long as the larger of len
\* and S::LEN and is zeroed.  When the allocator returns null, the zeroing
\* loop runs on the null pointer before the pointer is tested: the behaviour
\* is undefined, and the process ends either in the write through the null
\* pointer ("nullwrite") or in handle_alloc_error ("abort")
CPUAlloc(mem, len, slen) ==
    IF len = 0
    THEN {[fail |-> "panic", ptr |-> 0, mem |-> mem]}
    ELSE LET n == IF slen > len THEN slen ELSE len
         IN {[fail |-> f, ptr |-> 0, mem |-> mem] : f \in {"nullwrite", "abort"}}
            \cup {[fail |-> "none", ptr |-> a, mem |-> (a :> Zeros(n)) @@ mem] :
                    a \in HAddr \ DOMAIN mem}

\* the call op ends as the allocation o did: nothing is held on a failure
Failed(op, o) ==
    /\ o.fail # "none"
    /\ res' = [op |-> op, fail |-> o.fail, val |-> << >>]
    /\ UNCHANGED <<hmem, held>>

\* Buffer::new(&cpu, len) for a shape of S::LEN = slen, kept in slot s
BufferNew(s, len, slen) ==
    /\ Running
    /\ held[s] = NoHandle
    /\ \E o \in CPUAlloc(hmem, len, slen) :
         \/ Failed("alloc", o)
         \/ /\ o.fail = "none"
            /\ hmem' = o.mem
            /\ held' = [held EXCEPT ![s] =
                          [dev |-> "CPU", ptr |-> o.ptr, cu |-> 0, len |-> len]]
            /\ res' = Returned("alloc", o.mem[o.ptr])
    /\ UNCHANGED <<ct, dmem, cdev>>

\* mutant of WithSlice: the block is allocated but the data are not copied
WithSliceNoCopy(s, data) ==
    /\ Running
    /\ held[s] = NoHandle
    /\ IF data = << >>
       THEN res' = Panicked("with_slice") /\ UNCHANGED <<hmem, held>>
       ELSE \E o \in CPUAlloc(hmem, Len(data), 0) :
              \/ Failed("with_slice", o)
              \/ /\ o.fail = "none"
                 /\ hmem' = o.mem
                 /\ held' = [held EXCEPT ![s] =
                               [dev |-> "CPU", ptr |-> o.ptr, cu |-> 0, len |-> Len(data)]]
                 /\ res' = Returned("with_slice", << >>)
    /\ UNCHANGED <<ct, dmem, cdev>>

\* Alloc::with_slice of CPU (Buffer::from((&cpu, data))), kept in slot s
WithSlice(s, data) ==
    /\ Running
    /\ held[s] = NoHandle
    /\ IF data = << >>
       THEN res' = Panicked("with_slice") /\ UNCHANGED <<hmem, held>>
       ELSE \E o \in CPUAlloc(hmem, Len(data), 0) :
              \/ Failed("with_slice", o)
              \/ /\ o.fail = "none"
                 /\ hmem' = [o.mem EXCEPT ![o.ptr] =
                               [i \in DOMAIN @ |-> IF i <= Len(data) THEN data[i] ELSE @[i]]]
                 /\ held' = [held EXCEPT ![s] =
                               [dev |-> "CPU", ptr |-> o.ptr, cu |-> 0, len |-> Len(data)]]
                 /\ res' = Returned("with_slice", << >>)
    /\ UNCHANGED <<ct, dmem, cdev>>

\* mutant of CPUAllocWithVec: no assertion on the vector
CPUAllocWithVecAny(s, vec) ==
    /\ Running
    /\ held[s] = NoHandle
    /\ \E a \in HAddr \ DOMAIN hmem :
         /\ hmem' = (a :> vec) @@ hmem
         /\ held' = [held EXCEPT ![s] =
                       [dev |-> "CPU", ptr |-> a, cu |-> 0, len |-> Len(vec)]]
         /\ res' = Returned("alloc_with_vec", << >>)
    /\ UNCHANGED <<ct, dmem, cdev>>

\* Alloc::alloc_with_vec of CPU: the vector's own block is adopted
CPUAllocWithVec(s, vec) ==
    /\ Running
    /\ held[s] = NoHandle
    /\ IF vec = << >>
       THEN res' = Panicked("alloc_with_vec") /\ UNCHANGED <<hmem, held>>
       ELSE \E a \in HAddr \ DOMAIN hmem :
              /\ hmem' = (a :> vec) @@ hmem
              /\ held' = [held EXCEPT ![s] =
                            [dev |-> "CPU", ptr |-> a, cu |-> 0, len |-> Len(vec)]]
              /\ res' = Returned("alloc_with_vec", << >>)
    /\ UNCHANGED <<ct, dmem, cdev>>

\* mutant of AsSlice: no assertion on the host pointer
AsSliceUnchecked(b) ==
    IF b.ptr = 0 THEN [fail |-> "none", val |-> << >>]
    ELSE [fail |-> "none", val |-> SubSeq(hmem[b.ptr], 1, b.len)]

\* MainMemory::buf_as_slice: the assertion on the host pointer, then the
\* first len elements of the block
AsSlice(b) ==
    IF b.ptr = 0 THEN [fail |-> "panic", val |-> << >>]
    ELSE [fail |-> "none", val |-> SubSeq(hmem[b.ptr], 1, b.len)]

\* Read::read of CPU on the Buffer of slot s
Read(s) ==
    /\ Running
    /\ held[s] # NoHandle
    /\ res' = [op |-> "read", fail |-> AsSlice(held[s]).fail, val |-> AsSlice(held[s]).val]
    /\ UNCHANGED <<hmem, held, ct, dmem, cdev>>

\* mutant of Clear: the call returns without touching the slice
ClearNone(s) ==
    /\ Running
    /\ held[s] # NoHandle
    /\ IF AsSlice(held[s]).fail = "panic"
       THEN res' = Panicked("clear") /\ UNCHANGED hmem
       ELSE /\ UNCHANGED hmem
            /\ res' = Returned("clear", << >>)
    /\ UNCHANGED <<held, ct, dmem, cdev>>

\* ClearBuf::clear of CPU: every element of the slice becomes the default
Clear(s) ==
    /\ Running
    /\ held[s] # NoHandle
    /\ IF AsSlice(held[s]).fail = "panic"
       THEN res' = Panicked("clear") /\ UNCHANGED hmem
       ELSE /\ hmem' = [hmem EXCEPT ![held[s].ptr] =
                          [i \in DOMAIN @ |-> IF i <= held[s].len THEN 0 ELSE @[i]]]
            /\ res' = Returned("clear", << >>)
    /\ UNCHANGED <<held, ct, dmem, cdev>>

\* mutant of Write: the call returns without copying the data
WriteNoCopy(s, data) ==
    /\ Running
    /\ held[s] # NoHandle
    /\ IF AsSlice(held[s]).fail = "panic" \/ Len(data) # held[s].len
       THEN res' = Panicked("write") /\ UNCHANGED hmem
       ELSE /\ UNCHANGED hmem
            /\ res' = Returned("write", << >>)
    /\ UNCHANGED <<held, ct, dmem, cdev>>

\* WriteBuf::write of CPU: copy_from_slice panics unless the lengths agree
Write(s, data) ==
    /\ Running
    /\ held[s] # NoHandle
    /\ IF AsSlice(held[s]).fail = "panic" \/ Len(data) # held[s].len
       THEN res' = Panicked("write") /\ UNCHANGED hmem
       ELSE /\ hmem' = [hmem EXCEPT ![held[s].ptr] =
                          [i \in DOMAIN @ |-> IF i <= Len(data) THEN data[i] ELSE @[i]]]
            /\ res' = Returned("write", << >>)
    /\ UNCHANGED <<held, ct, dmem, cdev>>

\* CloneBuf::clone_buf of CPU: a Buffer::new of the source's len, then
\* clone_from_slice of the source's slice; the clone is kept in slot t
CloneBuf(s, t) ==
    /\ Running
    /\ s # t
    /\ held[s].dev = "CPU"
    /\ held[t] = NoHandle
    /\ \E o \in CPUAlloc(hmem, held[s].len, 0) :
         \/ Failed("clone_buf", o)
         \/ /\ o.fail = "none"
            /\ hmem' = [o.mem EXCEPT ![o.ptr] = AsSlice(held[s]).val]
            /\ held' = [held EXCEPT ![t] =
                          [dev |-> "CPU", ptr |-> o.ptr, cu |-> 0, len |-> held[s].len]]
            /\ res' = Returned("clone_buf", << >>)
    /\ UNCHANGED <<ct, dmem, cdev>>

\* the Buffer of slot s goes out of scope: its block is freed, on the host or
\* by the driver
DropBuffer(s) ==
    /\ Running
    /\ held[s] # NoHandle
    /\ IF held[s].dev = "CPU"
       THEN /\ hmem' = [a \in DOMAIN hmem \ {held[s].ptr} |-> hmem[a]]
            /\ UNCHANGED dmem
       ELSE /\ dmem' = [a \in DOMAIN dmem \ {held[s].cu} |-> dmem[a]]
            /\ UNCHANGED hmem
    /\ held' = [held EXCEPT ![s] = NoHandle]
    /\ res' = Returned("drop", << >>)
    /\ UNCHANGED <<ct, cdev>>

\* ---- the device backends (devices/cuda, libs/opencl)
DAddr == 1..MaxDev

\* the blocks of n elements the driver may hand out: device memory is not
\* initialised
Blocks(n) == [1..n -> Val]

\* cumalloc / create_buffer for len elements on device memory mem: the driver
\* rejects a size of 0, may fail for lack of memory, and otherwise hands out
\* a fresh block
DriverAlloc(mem, len) ==
    IF len = 0
    THEN {[fail |-> "panic", ptr |-> 0, mem |-> mem]}
    ELSE {[fail |-> "panic", ptr |-> 0, mem |-> mem]}
         \cup {[fail |-> "none", ptr |-> a, mem |-> (a :> c) @@ mem] :
                 a \in DAddr \ DOMAIN mem, c \in Blocks(len)}

\* the call op of a device backend ends in the panic of an unwrap: nothing is
\* held
Unwrapped(op) ==
    /\ res' = Panicked(op)
    /\ UNCHANGED <<dmem, held>>

\* Alloc::alloc of CudaDevice (Buffer::new(&cuda, len)), kept in slot s: the
\* host pointer of the result is null
CudaAlloc(s, len) ==
    /\ Running
    /\ held[s] = NoHandle
    /\ \E o \in DriverAlloc(dmem, len) :
         \/ o.fail = "panic" /\ Unwrapped("cuda_alloc")
         \/ /\ o.fail = "none"
            /\ dmem' = o.mem
            /\ held' = [held EXCEPT ![s] =
                          [dev |-> "CUDA", ptr |-> 0, cu |-> o.ptr, len |-> len]]
            /\ res' = Returned("cuda_alloc", << >>)
    /\ UNCHANGED <<hmem, ct, cdev>>

\* Alloc::with_data of CudaDevice: cumalloc, then cu_write of the data; when
\* the write fails the block stays allocated
CudaWithData(s, data) ==
    /\ Running
    /\ held[s] = NoHandle
    /\ \E o \in DriverAlloc(dmem, Len(data)) :
         \/ o.fail = "panic" /\ Unwrapped("cuda_with_data")
         \/ /\ o.fail = "none"
            /\ \/ /\ dmem' = [o.mem EXCEPT ![o.ptr] = data]
                  /\ held' = [held EXCEPT ![s] =
                                [dev |-> "CUDA", ptr |-> 0, cu |-> o.ptr, len |-> Len(data)]]
                  /\ res' = Returned("cuda_with_data", << >>)
               \/ /\ dmem' = o.mem
                  /\ res' = Panicked("cuda_with_data")
                  /\ UNCHANGED held
    /\ UNCHANGED <<hmem, ct, cdev>>

\* Device::alloc of CLDevice: create_buffer of len elements
CLAlloc(s, len) ==
    /\ Running
    /\ held[s] = NoHandle
    /\ \E o \in DriverAlloc(dmem, len) :
         \/ o.fail = "panic" /\ Unwrapped("cl_alloc")
         \/ /\ o.fail = "none"
            /\ dmem' = o.mem
            /\ held' = [held EXCEPT ![s] =
                          [dev |-> "CL", ptr |-> 0, cu |-> o.ptr, len |-> len]]
            /\ res' = Returned("cl_alloc", << >>)
    /\ UNCHANGED <<hmem, ct, cdev>>

\* Device::with_data of CLDevice: create_buffer with MemCopyHostPtr
CLWithData(s, data) ==
    /\ Running
    /\ held[s] = NoHandle
    /\ \E o \in DriverAlloc(dmem, Len(data)) :
         \/ o.fail = "panic" /\ Unwrapped("cl_with_data")
         \/ /\ o.fail = "none"
            /\ dmem' = [o.mem EXCEPT ![o.ptr] = data]
            /\ held' = [held EXCEPT ![s] =
                          [dev |-> "CL", ptr |-> 0, cu |-> o.ptr, len |-> Len(data)]]
            /\ res' = Returned("cl_with_data", << >>)
    /\ UNCHANGED <<hmem, ct, cdev>>

\* the CUDA pointer of a Buffer (ptr.2): 0 unless a CudaDevice allocated it
CuPtr(b) == IF b.dev = "CUDA" THEN b.cu ELSE 0

\* VecRead::read of CudaDevice: the assertion on the CUDA pointer, then
\* cu_read of len elements
CudaRead(s) ==
    /\ Running
    /\ held[s] # NoHandle
    /\ \/ /\ CuPtr(held[s]) # 0
          /\ res' = Returned("cuda_read", SubSeq(dmem[CuPtr(held[s])], 1, held[s].len))
       \/ res' = Panicked("cuda_read")
    /\ UNCHANGED <<hmem, held, ct, dmem, cdev>>

\* ClearBuf::clear of CudaDevice: cu_clear writes the default over the len
\* elements, or fails
CudaClear(s) ==
    /\ Running
    /\ held[s] # NoHandle
    /\ \/ /\ CuPtr(held[s]) # 0
          /\ dmem' = [dmem EXCEPT ![CuPtr(held[s])] = Zeros(held[s].len)]
          /\ res' = Returned("cuda_clear", << >>)
       \/ res' = Panicked("cuda_clear") /\ UNCHANGED dmem
    /\ UNCHANGED <<hmem, held, ct, cdev>>

\* the device memories a copy of data to the block at cu can leave: the
\* elements that fit go to the block; a copy longer than the block runs over
\* its end, into whatever the driver has placed behind it
Spilled(cu, data) ==
    LET n == Len(dmem[cu])
        head == [i \in 1..n |-> IF i <= Len(data) THEN data[i] ELSE dmem[cu][i]]
    IN IF Len(data) <= n
       THEN {[dmem EXCEPT ![cu] = head]}
       ELSE {m \in [DOMAIN dmem -> DataSet] :
               /\ m[cu] = head
               /\ \A a \in DOMAIN dmem : Len(m[a]) = Len(dmem[a])}

\* WriteBuf::write of CudaDevice: cu_write of the data to the CUDA pointer;
\* the length of the data is not compared with the buffer's
CudaWrite(s, data) ==
    /\ Running
    /\ held[s] # NoHandle
    /\ \/ /\ CuPtr(held[s]) # 0
          /\ dmem' \in Spilled(CuPtr(held[s]), data)
          /\ res' = Returned("cuda_write", << >>)
       \/ res' = Panicked("cuda_write") /\ UNCHANGED dmem
    /\ UNCHANGED <<hmem, held, ct, cdev>>

\* CloneBuf::clone_buf of CudaDevice: a Buffer::new of the source's len, then
\* cuMemcpy from the source's CUDA pointer, whose result is not looked at:
\* when the copy fails the clone is returned as cumalloc left it
CudaCloneBuf(s, t) ==
    /\ Running
    /\ s # t
    /\ held[s] # NoHandle
    /\ held[t] = NoHandle
    /\ \E o \in DriverAlloc(dmem, held[s].len) :
         \/ o.fail = "panic" /\ Unwrapped("cuda_clone_buf")
         \/ /\ o.fail = "none"
            /\ \/ /\ CuPtr(held[s]) # 0
                  /\ dmem' = [o.mem EXCEPT ![o.ptr] = SubSeq(dmem[CuPtr(held[s])], 1, held[s].len)]
               \/ dmem' = o.mem
            /\ held' = [held EXCEPT ![t] =
                          [dev |-> "CUDA", ptr |-> 0, cu |-> o.ptr, len |-> held[s].len]]
            /\ res' = Returned("cuda_clone_buf", << >>)
    /\ UNCHANGED <<hmem, ct, cdev>>

\* a call of the Alloc layer leaves the cache layer of libs/cpu alone
Host(A) == A /\ UNCHANGED <<count, nodes, live, devs, buf, dfree, halted, rp, sz, glob>>

NextMem ==
    \/ \E s \in Slots, len \in 0..MaxLen, slen \in ShapeLens : Host(BufferNew(s, len, slen))
    \/ \E s \in Slots, data \in DataSet : Host(WithSlice(s, data))
    \/ \E s \in Slots, vec \in DataSet : Host(CPUAllocWithVec(s, vec))
    \/ \E s \in Slots : Host(Read(s))
    \/ \E s \in Slots : Host(Clear(s))
    \/ \E s \in Slots, data \in DataSet : Host(Write(s, data))
    \/ \E s \in Slots, t \in Slots : Host(CloneBuf(s, t))
    \/ \E s \in Slots : Host(DropBuffer(s))

\* a program that uses the Alloc layer of a CPU
SpecMem == Init /\ [][NextMem]_vars

\* the calls on the device backends
NextDev ==
    \/ NextMem
    \/ \E s \in Slots, len \in 0..MaxLen : Host(CudaAlloc(s, len))
    \/ \E s \in Slots, data \in DataSet : Host(CudaWithData(s, data))
    \/ \E s \in Slots, len \in 0..MaxLen : Host(CLAlloc(s, len))
    \/ \E s \in Slots, data \in DataSet : Host(CLWithData(s, data))
    \/ \E s \in Slots : Host(CudaRead(s))
    \/ \E s \in Slots : Host(CudaClear(s))
    \/ \E s \in Slots, data \in DataSet : Host(CudaWrite(s, data))
    \/ \E s \in Slots, t \in Slots : Host(CudaCloneBuf(s, t))


\* a program that uses the Alloc layer of a CPU, a CudaDevice and a CLDevice
SpecDev == Init /\ [][NextDev]_vars

\* ---- the type-erased cache of a CPU (Cache<CPU>, RawConv)
\* the element types a caller may request
Types == {"u8", "u64", "[u8; 8]"}

\* size_of::<T>()
SizeOf(T) == IF T = "u8" THEN 1 ELSE 8

\* align_of::<T>()
AlignOf(T) == IF T = "u64" THEN 8 ELSE 1

\* RawConv::construct of CPU: the erased record of a pointer to T
Construct(T, ptr, len, node) ==
    [ptr |-> ptr, len |-> len, align |-> AlignOf(T), size |-> SizeOf(T), node |-> node]

\* RawConv::destruct of CPU: the record's pointer as a pointer to T; neither
\* the record's size nor its align is looked at
Destruct(T, rec) == [ptr |-> rec.ptr, node |-> rec.node]

\* CacheBuf::cached of CPU (Cache::get::<T, ()>(cpu, len)): the Ident is made
\* of the counter and len, and the counter moves on; a stored record is
\* destructed to a pointer to T, a missing one is allocated, constructed and
\* inserted.  The result is the pointer with the size and the alignment its
\* elements are used with
Cached(T, len) ==
    /\ Running
    /\ count < MaxCount
    /\ count' = count + 1
    /\ LET node == [idx |-> count, len |-> len]
       IN IF node \in DOMAIN ct
          THEN /\ res' = Returned("cached", <<Destruct(T, ct[node]).ptr, SizeOf(T), AlignOf(T)>>)
               /\ UNCHANGED <<hmem, ct>>
          ELSE \E o \in CPUAlloc(hmem, len, 0) :
                 \/ Failed("cached", o) /\ UNCHANGED ct
                 \/ /\ o.fail = "none"
                    /\ hmem' = o.mem
                    /\ ct' = Insert(ct, node, Construct(T, o.ptr, len, node))
                    /\ res' = Returned("cached", <<o.ptr, SizeOf(T), AlignOf(T)>>)
    /\ UNCHANGED <<held, dmem, cdev>>
    /\ UNCHANGED <<nodes, live, devs, buf, dfree, halted, rp, sz, glob>>

NextErased ==
    \/ \E T \in Types, len \in 0..MaxLen : Cached(T, len)
    \/ \E v \in 0..MaxCount : Call(SetCount(v))

\* a program that gets buffers of several element types from the cache of one
\* CPU
SpecErased == Init /\ [][NextErased]_vars

\* ---- the life of a CUDA device (devices/cuda, libs/cuda)
\* the two device types: CudaDevice of devices/cuda, which owns its cache as
\* a field, and InternCudaDevice of libs/cuda
Kinds == {"CudaDevice", "InternCudaDevice"}

\* CudaDevice::new / InternCudaDevice::new: context, stream and handle are
\* created and the cache is empty, or an error is returned
CudaNew(kind) ==
    /\ Running
    /\ cdev.st = "absent"
    /\ \/ /\ cdev' = [st |-> "live", kind |-> kind, handle |-> TRUE, stream |-> TRUE,
                      cache |-> << >>]
          /\ res' = Returned("cuda_new", << >>)
       \/ /\ res' = [op |-> "cuda_new", fail |-> "error", val |-> << >>]
          /\ UNCHANGED cdev
    /\ UNCHANGED <<hmem, held, ct, dmem>>
    /\ UNCHANGED <<count, nodes, live, devs, buf, dfree, halted, rp, sz, glob>>

\* CacheBuf::cached of the CUDA device (Cache::get(self, len)): a stored
\* entry is returned, a missing one is allocated by the driver and inserted
CudaCached(len) ==
    /\ Running
    /\ cdev.st = "live"
    /\ count < MaxCount
    /\ count' = count + 1
    /\ LET node == [idx |-> count, len |-> len]
       IN IF node \in DOMAIN cdev.cache
          THEN /\ res' = Returned("cuda_cached", <<cdev.cache[node]>>)
               /\ UNCHANGED <<dmem, cdev>>
          ELSE \E o \in DriverAlloc(dmem, len) :
                 \/ /\ o.fail = "panic"
                    /\ res' = Panicked("cuda_cached")
                    /\ UNCHANGED <<dmem, cdev>>
                 \/ /\ o.fail = "none"
                    /\ dmem' = o.mem
                    /\ cdev' = [cdev EXCEPT !.cache = Insert(@, node, o.ptr)]
                    /\ res' = Returned("cuda_cached", <<o.ptr>>)
    /\ UNCHANGED <<hmem, held, ct>>
    /\ UNCHANGED <<nodes, live, devs, buf, dfree, halted, rp, sz, glob>>

\* the device memory once every entry of the cache is released
Released(cache) == [a \in DOMAIN dmem \ {cache[k] : k \in DOMAIN cache} |-> dmem[a]]

\* Drop::drop of CudaDevice: the body destroys the cuBLAS handle and the
\* stream; the fields, the cache first, are dropped after the body
CudaDropBody ==
    /\ Running
    /\ cdev.st = "live" /\ cdev.kind = "CudaDevice"
    /\ cdev' = [cdev EXCEPT !.st = "fields", !.handle = FALSE, !.stream = FALSE]
    /\ res' = Returned("cuda_drop", << >>)
    /\ UNCHANGED <<hmem, held, ct, dmem>>
    /\ UNCHANGED <<count, nodes, live, devs, buf, dfree, halted, rp, sz, glob>>

\* the fields of a CudaDevice are dropped in the order of their declaration:
\* the cache, whose entries release their memory, comes first
CudaDropFields ==
    /\ Running
    /\ cdev.st = "fields"
    /\ dmem' = Released(cdev.cache)
    /\ cdev' = NoCuda
    /\ res' = Returned("cuda_drop", << >>)
    /\ UNCHANGED <<hmem, held, ct>>
    /\ UNCHANGED <<count, nodes, live, devs, buf, dfree, halted, rp, sz, glob>>

\* Drop::drop of InternCudaDevice, first half: deallocate_cache releases the
\* entries of the cache
InternDealloc ==
    /\ Running
    /\ cdev.st = "live" /\ cdev.kind = "InternCudaDevice"
    /\ dmem' = Released(cdev.cache)
    /\ cdev' = [cdev EXCEPT !.st = "body", !.cache = << >>]
    /\ res' = Returned("cuda_drop", << >>)
    /\ UNCHANGED <<hmem, held, ct>>
    /\ UNCHANGED <<count, nodes, live, devs, buf, dfree, halted, rp, sz, glob>>

\* Drop::drop of InternCudaDevice, second half: cublasDestroy_v2 and
\* cuStreamDestroy
InternDestroy ==
    /\ Running
    /\ cdev.st = "body"
    /\ cdev' = NoCuda
    /\ res' = Returned("cuda_drop", << >>)
    /\ UNCHANGED <<hmem, held, ct, dmem>>
    /\ UNCHANGED <<count, nodes, live, devs, buf, dfree, halted, rp, sz, glob>>

NextCuda ==
    \/ \E kind \in Kinds : CudaNew(kind)
    \/ \E len \in 0..MaxLen : CudaCached(len)
    \/ \E v \in 0..MaxCount : Call(SetCount(v))
    \/ CudaDropBody
    \/ CudaDropFields
    \/ InternDealloc
    \/ InternDestroy

\* a program that builds a CUDA device, gets buffers from its cache and drops
\* it
SpecCuda == Init /\ [][NextCuda]_vars

\* ---- the device list of the OpenCL backend (libs/opencl/cl_devices.rs)
\* the GPU devices a platform may report
CLIds == 1..MaxCL

\* the lists get_device_ids may return: devices of the platform, each once
DevLists == {l \in UNION {[1..n -> CLIds] : n \in 0..MaxCL} :
               \A i \in DOMAIN l, j \in DOMAIN l : l[i] = l[j] => i = j}

\* what a run of the discovery leaves of list: the index [0] panics when
\* there is no platform; a query fails and the error is returned; the
\* creation of the device after the first k fails and the error is returned,
\* with k devices pushed; or all the devices are pushed
Discovery(list) ==
    {[fail |-> "panic", list |-> list, ran |-> TRUE],
     [fail |-> "error", list |-> list, ran |-> TRUE]}
    \cup UNION {{[fail |-> IF k = Len(devices) THEN "none" ELSE "error",
                  list |-> list \o SubSeq(devices, 1, k), ran |-> TRUE] :
                   k \in 0..Len(devices)} : devices \in DevLists}

\* mutant of SyncCurrent: the discovery runs whatever the list holds
SyncCurrentAlways(list) == Discovery(list)

\* CLDevices::sync_current on the list: nothing happens to a list that holds a
\* device; on an empty list the platforms and the GPU devices of the first
\* platform are queried, and a CLDevice is created and pushed for each device
\* in turn
SyncCurrent(list) ==
    IF Len(list) = 0
    THEN Discovery(list)
    ELSE {[fail |-> "none", list |-> list, ran |-> FALSE]}

\* the lookup of get_current and get_current_mut: the error of sync_current
\* is passed on by ?, then the index is compared with the length of the list
Current(op, device_idx) ==
    /\ clres.fail # "panic"
    /\ \E o \in SyncCurrent(current_devices) :
         /\ o.ran => syncs < MaxSync
         /\ syncs' = IF o.ran THEN syncs + 1 ELSE syncs
         /\ current_devices' = o.list
         /\ clres' = IF o.fail # "none"
                     THEN [op |-> op, fail |-> o.fail, val |-> 0]
                     ELSE IF device_idx < Len(o.list)
                          THEN [op |-> op, fail |-> "none", val |-> o.list[device_idx + 1]]
                          ELSE [op |-> op, fail |-> "InvalidDeviceIdx", val |-> 0]
    /\ UNCHANGED <<count, nodes, live, devs, buf, dfree, halted, rp, sz>>
    /\ UNCHANGED <<ext, device_count, inner, matrix, output_nodes, clmem, clheld>>

\* CLDevices::get_current
GetCurrent(device_idx) == Current("get_current", device_idx)

\* CLDevices::get_current_mut
GetCurrentMut(device_idx) == Current("get_current_mut", device_idx)

NextCL ==
    \/ \E device_idx \in 0..MaxCL : GetCurrent(device_idx)
    \/ \E device_idx \in 0..MaxCL : GetCurrentMut(device_idx)

\* a program that looks devices up in CL_DEVICES
SpecCL == Init /\ [][NextCL]_vars

\* ---- the count of the CUDA devices (libs/cuda/cuda_device.rs)
\* the InternCudaDevice instances a program may have at a time
Inst == 1..MaxInst

\* a call on the CUDA devices leaves the rest of the program alone
Cuda(A) ==
    /\ A
    /\ UNCHANGED <<count, nodes, live, devs, buf, dfree, halted, rp, sz>>
    /\ UNCHANGED <<hmem, held, ct, dmem, cdev>>
    /\ UNCHANGED <<current_devices, clres, syncs, matrix, output_nodes, clmem, clheld>>

\* CudaDevice::new: the count is raised, then InternCudaDevice::new builds the
\* device, or one of its driver calls fails and ? returns the error
CudaDeviceNew ==
    /\ device_count < MaxDC
    /\ device_count' = device_count + 1
    /\ \/ \E i \in Inst \ DOMAIN inner :
            /\ inner' = [j \in DOMAIN inner \cup {i} |-> IF j = i THEN 1 ELSE inner[j]]
            /\ res' = Returned("new", <<i>>)
       \/ /\ res' = [op |-> "new", fail |-> "error", val |-> << >>]
          /\ UNCHANGED inner

\* Clone of CudaDevice (derived): one more handle on the same Rc
CudaDeviceClone(i) ==
    /\ i \in DOMAIN inner
    /\ inner[i] < MaxRc
    /\ inner' = [inner EXCEPT ![i] = @ + 1]
    /\ res' = Returned("clone", <<i>>)
    /\ UNCHANGED device_count

\* Drop for InternCudaDevice: the count is lowered (then the cache of that
\* count is freed, and handle and stream are destroyed)
InternCudaDeviceDrop(i) ==
    /\ device_count' = device_count - 1
    /\ inner' = [j \in DOMAIN inner \ {i} |-> inner[j]]

\* a CudaDevice handle goes out of scope: the Rc drops the InternCudaDevice
\* with its last handle
CudaDeviceDrop(i) ==
    /\ i \in DOMAIN inner
    /\ IF inner[i] > 1
       THEN /\ inner' = [inner EXCEPT ![i] = @ - 1]
            /\ UNCHANGED device_count
       ELSE InternCudaDeviceDrop(i)
    /\ res' = Returned("drop", <<i>>)

NextCount ==
    \/ Cuda(CudaDeviceNew)
    \/ \E i \in Inst : Cuda(CudaDeviceClone(i))
    \/ \E i \in Inst : Cuda(CudaDeviceDrop(i))

\* a program that creates, clones and drops CudaDevice handles
SpecCount == Init /\ [][NextCount]_vars

\* ---- the Matrix wrapper (matrix.rs)
\* the dims a caller may pass
MatDims == (0..MaxDim) \X (0..MaxDim)

\* a constructor of Matrix returned m
Built(op, m) == [op |-> op, fail |-> "none", dims |-> m.dims, len |-> m.data.len]

\* Device::alloc / with_data / alloc_with_vec of libs/cpu refuse a length of 0
NoMatrixOf(op) == [op |-> op, fail |-> "panic", dims |-> <<0, 0>>, len |-> 0]

\* From<(*mut T, (usize, usize))> for Matrix
MatrixFromPtr(ptr_dims) ==
    LET dims == ptr_dims
    IN [data |-> [len |-> dims[1] * dims[2]], dims |-> dims]

\* Matrix::new: the Buffer of dims.0 * dims.1 elements the device allocates
MatrixNew(dims) ==
    [data |-> [len |-> dims[1] * dims[2]], dims |-> dims]

\* Buffer::from((device, data)) for an array or a Vec of n elements: the
\* device's with_data / alloc_with_vec of the data, and len is its length
BufferFrom(n) == [len |-> n]

\* From<(&D, (usize, usize), [T; N])> and From<(&D, (usize, usize), Vec<T>)>
\* for Matrix: the Buffer is built from the data, the dims are taken as given
MatrixFromData(dims, n) ==
    [data |-> BufferFrom(n), dims |-> dims]

\* Matrix::size
MatrixSize(m) == m.dims[1] * m.dims[2]

\* Matrix::as_cpu_slice: the number of elements of the slice
AsCpuSliceLen(m) == m.data.len

\* a call of a constructor leaves the rest of the program alone
Wrap(A) ==
    /\ A
    /\ UNCHANGED <<count, nodes, live, devs, buf, dfree, halted, rp, sz>>
    /\ UNCHANGED ext
    /\ UNCHANGED <<current_devices, clres, syncs, device_count, inner>>
    /\ UNCHANGED <<output_nodes, clmem, clheld>>

NewMatrix(dims) ==
    matrix' = IF dims[1] * dims[2] = 0
              THEN NoMatrixOf("new")
              ELSE Built("new", MatrixNew(dims))

FromPtr(dims) ==
    matrix' = Built("from_ptr", MatrixFromPtr(dims))

FromArray(dims, n) ==
    matrix' = IF n = 0
              THEN NoMatrixOf("from_array")
              ELSE Built("from_array", MatrixFromData(dims, n))

FromVec(dims, n) ==
    matrix' = IF n = 0
              THEN NoMatrixOf("from_vec")
              ELSE Built("from_vec", MatrixFromData(dims, n))

\* the Matrix CPUCache::get returns: Matrix::from of the stored pointer and
\* dims on a hit, the Matrix::new of add_node on a miss
Cache_get(hit, dims) ==
    matrix' = IF hit
              THEN Built("get", MatrixFromPtr(dims))
              ELSE IF dims[1] * dims[2] = 0
                   THEN NoMatrixOf("get")
                   ELSE Built("get", MatrixNew(dims))

NextMatrix ==
    \/ \E dims \in MatDims : Wrap(NewMatrix(dims))
    \/ \E dims \in MatDims : Wrap(FromPtr(dims))
    \/ \E dims \in MatDims, n \in 0..MaxN : Wrap(FromArray(dims, n))
    \/ \E dims \in MatDims, n \in 0..MaxN : Wrap(FromVec(dims, n))
    \/ \E dims \in MatDims, hit \in BOOLEAN : Wrap(Cache_get(hit, dims))

\* a program that builds matrices
SpecMatrix == Init /\ [][NextMatrix]_vars

\* ---- the memory objects of the OpenCL backend (libs/opencl/cl_device.rs)
\* the memory objects the driver may create
Mems == 1..MaxMem

\* the Nodes a cache get may ask for
CLNodes == 1..MaxNode

\* a call on the memory objects leaves the rest of the program alone
CLCall(A) ==
    /\ A
    /\ clres.fail # "panic"
    /\ UNCHANGED <<count, nodes, live, devs, buf, dfree, halted, rp, sz>>
    /\ UNCHANGED ext
    /\ UNCHANGED <<current_devices, syncs, device_count, inner, matrix>>

\* release_mem_object(mem): one more release of the object; the driver may
\* report the release of an object that is released already, and may not
ReleaseMemObject(mems, mem) ==
    {[fail |-> "none", mems |-> [mems EXCEPT ![mem] = @ + 1]]}
    \cup IF mems[mem] > 0
         THEN {[fail |-> "error", mems |-> [mems EXCEPT ![mem] = @ + 1]]}
         ELSE {}

\* CLCache::get: the memory object stored under node, or a new one that
\* create_buffer makes and that is stored under node
CLCacheGet(node) ==
    IF node \in DOMAIN output_nodes
    THEN /\ clheld' = clheld \cup {output_nodes[node]}
         /\ clres' = [op |-> "get", fail |-> "none", val |-> output_nodes[node]]
         /\ UNCHANGED <<output_nodes, clmem>>
    ELSE \E mem \in Mems \ DOMAIN clmem :
           /\ clmem' = [m \in DOMAIN clmem \cup {mem} |-> IF m = mem THEN 0 ELSE clmem[m]]
           /\ output_nodes' = [n \in DOMAIN output_nodes \cup {node} |->
                                 IF n = node THEN mem ELSE output_nodes[n]]
           /\ clheld' = clheld \cup {mem}
           /\ clres' = [op |-> "get", fail |-> "none", val |-> mem]

\* CLDevice::drop(buffer): release_mem_object(buffer.ptr).unwrap()
CLDeviceDrop(mem) ==
    /\ mem \in clheld
    /\ clmem[mem] < MaxRelease
    /\ \E o \in ReleaseMemObject(clmem, mem) :
         /\ clmem' = o.mems
         /\ clres' = [op |-> "drop", fail |-> IF o.fail = "none" THEN "none" ELSE "panic",
                      val |-> mem]
    /\ UNCHANGED <<output_nodes, clheld>>

\* the loop of dealloc_cache over the entries keys of the copy contents, in
\* any order: each memory object is released, and its entry removed unless
\* the unwrap of a failed release has ended the call
RECURSIVE CLDeallocLoop(_, _, _)
CLDeallocLoop(contents, keys, st) ==
    IF keys = {} THEN {st}
    ELSE UNION {UNION {IF o.fail = "none"
                       THEN CLDeallocLoop(contents, keys \ {entry},
                                [fail |-> "none", mems |-> o.mems,
                                 nodes |-> [n \in DOMAIN st.nodes \ {entry} |-> st.nodes[n]]])
                       ELSE {[fail |-> "panic", mems |-> o.mems, nodes |-> st.nodes]} :
                         o \in ReleaseMemObject(st.mems, contents[entry])} :
                   entry \in keys}

\* Dealloc::dealloc_cache of CLDevice
CLDeallocCache ==
    /\ \A node \in DOMAIN output_nodes : clmem[output_nodes[node]] < MaxRelease
    /\ \E st \in CLDeallocLoop(output_nodes, DOMAIN output_nodes,
                               [fail |-> "none", mems |-> clmem, nodes |-> output_nodes]) :
         /\ clmem' = st.mems
         /\ output_nodes' = st.nodes
         /\ clres' = [op |-> "dealloc_cache", fail |-> st.fail, val |-> 0]
    /\ UNCHANGED clheld

NextCLMem ==
    \/ \E node \in CLNodes : CLCall(CLCacheGet(node))
    \/ \E mem \in Mems : CLCall(CLDeviceDrop(mem))
    \/ CLCall(CLDeallocCache)

\* a program that gets buffers from the OpenCL cache and releases them
SpecCLMem == Init /\ [][NextCLMem]_vars

\* ------------------------------------------------------------------ claims
\* a get step hits when it leaves the table and the heap as they are
IsHit == nodes' = nodes /\ live' = live

\* a get step misses when it stores a key the table did not have
IsMiss == DOMAIN nodes' # DOMAIN nodes

\* C2: over any sequence of alloc, with_data, alloc_with_vec, cache get,
\* drop_buf, dealloc_cache and CPU drop, no call frees an allocation that has
\* been freed already (no address is freed while it is not allocated).
C2_FreedAtMostOnce == ~dfree

\* C3: in every reachable state every address stored in the cache table refers
\* to an allocation that has not been freed.
C3_TableRefersToLive == \A k \in DOMAIN nodes : nodes[k].ptr \in live

\* C10: every cache get advances the call-site counter by exactly one, hit or
\* miss, and the Node it looks up carries the counter's value from before the
\* increment: a miss stores its entry under that index, a hit returns the
\* memory stored under that index.
C10_CounterStep ==
    [][\A d \in DOMAIN devs, dims \in DimsSet :
         CacheGet(d, dims) =>
           /\ count' = count + 1
           /\ IsMiss => DOMAIN nodes' \ DOMAIN nodes = {[idx |-> count, out_dims |-> dims]}
           /\ IsHit => /\ [idx |-> count, out_dims |-> dims] \in DOMAIN nodes
                       /\ buf'.ptr = nodes[[idx |-> count, out_dims |-> dims]].ptr
           /\ IsHit \/ IsMiss]_vars

\* the first get after the counter was 0 has used index 0 (the state a miss at
\* index 0 leaves, and a hit at index 0 after it)
C10_Witness ==
    /\ count = 1
    /\ \E k \in DOMAIN nodes : k.idx = 0 /\ buf = [ptr |-> nodes[k].ptr, flag |-> "Cache"]
    /\ \E d \in DOMAIN devs : Live(d) /\ Len(devs[d].ptrs) = 1

\* C5: a cache get whose call-site index equals that of a stored entry but
\* whose requested dims differ from the stored ones (and are stored under no
\* entry of that index) is a miss: it stores a new entry for the requested
\* Node, over storage that was not allocated before the call.
C5_LengthChangeMisses ==
    [][\A d \in DOMAIN devs, dims \in DimsSet :
         LET node == [idx |-> count, out_dims |-> dims]
         IN (/\ CacheGet(d, dims)
             /\ node \notin DOMAIN nodes
             /\ \E k \in DOMAIN nodes : k.idx = count /\ k.out_dims # dims)
            => /\ DOMAIN nodes' = DOMAIN nodes \cup {node}
               /\ nodes'[node].ptr = buf'.ptr
               /\ buf'.ptr \notin live
               /\ live' = live \cup {buf'.ptr}]_vars

\* both dims are stored under index 0, over distinct allocated storage, and the
\* get that has just run returned one of them
C5_Witness ==
    /\ count = 1
    /\ \E k1, k2 \in DOMAIN nodes :
         /\ k1.idx = 0 /\ k2.idx = 0 /\ k1.out_dims # k2.out_dims
         /\ nodes[k1].ptr # nodes[k2].ptr
         /\ {nodes[k1].ptr, nodes[k2].ptr} \subseteq live
         /\ buf = [ptr |-> nodes[k2].ptr, flag |-> "Cache"]

\* C7: after dealloc_cache returns, the cache table is empty and every
\* allocation that was stored in the table before the call has been released.
C7_DeallocEmpties ==
    [][(DeallocCache /\ ~halted') =>
         /\ nodes' = << >>
         /\ \A k \in DOMAIN nodes : nodes[k].ptr \notin live']_vars

\* dealloc_cache has run on a table that held the buffer user code got from a
\* get: the table is empty, the buffer's memory is released, and the device
\* that recorded the pointer is still there
C7_Witness ==
    /\ nodes = << >>
    /\ ~dfree /\ ~halted
    /\ buf.flag = "Cache" /\ buf.ptr \in Addr /\ buf.ptr \notin live
    /\ \E d \in DOMAIN devs : Live(d) /\ buf.ptr \in Range(devs[d].ptrs)

\* C9: dropping a Buffer dispatches on its flag: a buffer flagged None frees
\* its backing memory exactly once (the memory was allocated and is released),
\* a buffer flagged Wrapper or Cache never frees its backing memory, so a cache
\* entry survives the drop of every buffer that views it.
C9_DropByFlag ==
    [][\A d \in DOMAIN devs :
         DropBuf(d, buf) =>
           IF buf.flag = "None"
           THEN buf.ptr \in live /\ live' = live \ {buf.ptr} /\ ~dfree'
           ELSE live' = live /\ ~dfree']_vars

\* C6: the cache table is per device: a get made through one device never
\* hits an entry that a get made through another device inserted.
C6_PerDeviceTable ==
    [][\A d \in DOMAIN devs, dims \in DimsSet :
         (CacheGet(d, dims) /\ IsHit)
           => nodes[[idx |-> count, out_dims |-> dims]].by = d]_vars

\* C4: in every state reached by cache gets, dealloc_cache calls and device
\* drops, no two distinct Nodes of the cache table are mapped to the same
\* backing address.
C4_NoAliasing ==
    \A k1, k2 \in DOMAIN nodes : k1 # k2 => nodes[k1].ptr # nodes[k2].ptr

\* two Nodes of different call sites are stored, by gets made through the two
\* devices, after an address that dealloc_cache had released was allocated anew
C4_Witness ==
    /\ \E k1, k2 \in DOMAIN nodes :
         /\ k1.idx # k2.idx
         /\ nodes[k1].by # nodes[k2].by
         /\ {nodes[k1].ptr, nodes[k2].ptr} \subseteq live
    /\ \E d \in DOMAIN devs :
         Len(devs[d].ptrs) = 2 /\ devs[d].ptrs[1] = devs[d].ptrs[2]
\* C1: when a pass of cache gets with fixed dims has been made, the call-site
\* counter is reset to the value the pass started at and the pass is replayed,
\* the Kth get of the second pass returns the address the Kth get of the first
\* pass returned, for every K, and it allocates nothing (the heap, the table
\* and every device's ptrs stay as they are).
C1_ReplayAliases ==
    [][\A d \in DOMAIN devs :
         SecondGet(d) =>
           /\ buf'.ptr = rp.log[rp.k + 1].ptr
           /\ live' = live
           /\ nodes' = nodes
           /\ devs' = devs]_vars

\* a pass of two gets has been replayed to its end
C1_Witness ==
    /\ rp.phase = "second"
    /\ Len(rp.log) = 2
    /\ rp.k = 2
    /\ buf.ptr = rp.log[2].ptr
    /\ rp.log[1].ptr # rp.log[2].ptr

\* C8: after two cache gets of length 4 at two distinct call sites and
\* dealloc_cache, a further get of length 4 at the first call site's position
\* is a miss that makes a new allocation: the first call's storage is released
\* before the get, the get stores a new entry under the first call site's Node
\* and returns storage it has just allocated.
C8_GetAfterDeallocMisses ==
    [][\A d \in DOMAIN devs :
         (ThirdGet(d) /\ Size(rp.log[1].dims) = 4 /\ Size(rp.log[2].dims) = 4) =>
           /\ rp.log[1].ptr \notin live
           /\ nodes = << >>
           /\ DOMAIN nodes' = {[idx |-> rp.start, out_dims |-> rp.log[1].dims]}
           /\ buf'.ptr \notin live
           /\ live' = live \cup {buf'.ptr}
           /\ nodes'[[idx |-> rp.start, out_dims |-> rp.log[1].dims]].ptr = buf'.ptr]_vars

\* the third get has run after two gets of length 4 and dealloc_cache
C8_Witness ==
    /\ rp.phase = "done"
    /\ Len(rp.log) = 2
    /\ Size(rp.log[1].dims) = 4 /\ Size(rp.log[2].dims) = 4
    /\ rp.log[1].ptr # rp.log[2].ptr
    /\ count = rp.start + 1
    /\ DOMAIN nodes = {[idx |-> rp.start, out_dims |-> rp.log[1].dims]}
    /\ buf.ptr \in live
\* C11: a cache get that hits (its Node is a key of the table) allocates
\* nothing, leaves the table's keys and records and every device's ptrs as
\* they are, and returns the address of the record stored under its Node.
C11_HitFrame ==
    [][\A d \in DOMAIN devs, dims \in DimsSet :
         LET node == [idx |-> count, out_dims |-> dims]
         IN (CacheGet(d, dims) /\ node \in DOMAIN nodes)
            => /\ live' = live
               /\ nodes' = nodes
               /\ devs' = devs
               /\ buf' = [ptr |-> nodes[node].ptr, flag |-> "Cache"]]_vars

\* a get has hit: the buffer user code holds is the one stored in the table,
\* while the pointer the device recorded last belongs to a later alloc
C11_Witness ==
    /\ buf.flag = "Cache"
    /\ buf.ptr \in live
    /\ \E k \in DOMAIN nodes : nodes[k].ptr = buf.ptr /\ k.idx + 1 = count
    /\ \E d \in DOMAIN devs :
         /\ Len(devs[d].ptrs) = 2
         /\ devs[d].ptrs[1] = buf.ptr
         /\ devs[d].ptrs[2] # buf.ptr
         /\ devs[d].ptrs[2] \notin {nodes[k].ptr : k \in DOMAIN nodes}

\* C12: a cache get that misses (its Node is no key of the table) makes
\* exactly one allocation, recorded once by the device it went through, and
\* inserts exactly one entry, under its Node (index, dims): the entry holds
\* the requested dims and the pointer of the returned buffer, and every other
\* entry is as it was.
C12_MissEffect ==
    [][\A d \in DOMAIN devs, dims \in DimsSet :
         LET node == [idx |-> count, out_dims |-> dims]
         IN (CacheGet(d, dims) /\ node \notin DOMAIN nodes)
            => /\ buf'.ptr \notin live
               /\ live' = live \cup {buf'.ptr}
               /\ devs' = [devs EXCEPT ![d].ptrs = Append(@, buf'.ptr)]
               /\ DOMAIN nodes' = DOMAIN nodes \cup {node}
               /\ nodes'[node].ptr = buf'.ptr
               /\ nodes'[node].dims = dims
               /\ buf'.flag = "Cache"
               /\ \A k \in DOMAIN nodes : nodes'[k] = nodes[k]]_vars

\* a get has missed while the table held an entry of another call site: both
\* entries are stored, the new one over the pointer the device recorded last
C12_Witness ==
    /\ count = 2
    /\ Cardinality(DOMAIN nodes) = 2
    /\ \E k1, k2 \in DOMAIN nodes :
         /\ k1.idx = 0 /\ k2.idx = 1
         /\ buf = [ptr |-> nodes[k2].ptr, flag |-> "Cache"]
         /\ \E d \in DOMAIN devs : devs[d].ptrs = <<nodes[k1].ptr, nodes[k2].ptr>>
         /\ nodes[k1].ptr # nodes[k2].ptr

\* C16: without the 'safe' feature every pointer that alloc, with_data or
\* alloc_with_vec of a CPU device returns is recorded in that device's ptrs,
\* and the drop of the CPU deallocates every recorded pointer and leaves ptrs
\* empty.
C16_PtrsRecorded ==
    [][\A d \in DOMAIN devs :
         /\ \A len \in Lens \ {0} :
              (Alloc(d, len) \/ WithData(d, len) \/ AllocWithVec(d, len))
                => devs'[d].ptrs = Append(devs[d].ptrs, buf'.ptr)
         /\ (DropCPU(d) /\ ~halted')
              => /\ \A i \in DOMAIN devs[d].ptrs : devs[d].ptrs[i] \notin live'
                 /\ devs'[d].ptrs = << >>]_vars

\* a CPU that had recorded the pointer of an alloc has been dropped: the
\* buffer user code holds from that alloc is deallocated
C16_Witness ==
    /\ \A d \in DOMAIN devs : devs[d] = [st |-> "absent", ptrs |-> << >>]
    /\ buf.flag = "None" /\ buf.ptr \in Addr
    /\ live = {}
    /\ nodes = << >>
    /\ ~dfree /\ ~halted

C20_ReadsBack ==
    [][\A s \in Slots, data \in DataSet \ {<< >>} :
         (WithSlice(s, data) /\ res'.fail = "none")
           => /\ held'[s].len = Len(data)
              /\ AsSlice(held[s])' = [fail |-> "none", val |-> data]]_vars

\* a buffer created from non-default data has been read: the read returned
\* the data, which are the contents of the buffer's block
C20_Witness ==
    /\ res.op = "read" /\ res.fail = "none"
    /\ \E i \in DOMAIN res.val : res.val[i] # 0
    /\ \E s \in Slots :
         /\ held[s].dev = "CPU"
         /\ res.val = hmem[held[s].ptr]
         /\ Len(res.val) = MaxLen

\* the elements a Buffer stands for: the first len elements of its block, on
\* the host or on the device
Contents(b) ==
    IF b.dev = "CPU" THEN SubSeq(hmem[b.ptr], 1, b.len)
    ELSE IF b.dev = "none" THEN << >>
    ELSE SubSeq(dmem[b.cu], 1, b.len)

\* C17: clone_buf returns a buffer of the same length and contents as its
\* source, backed by a different allocation, and any later write or clear on
\* one of two held buffers leaves the contents of the other unchanged (in
\* particular on a clone and its source).
C17_CloneIndependent ==
    [][/\ \A s \in Slots, t \in Slots :
            ((CloneBuf(s, t) \/ CudaCloneBuf(s, t)) /\ res'.fail = "none")
              => /\ held'[t].len = held[s].len
                 /\ Contents(held[t])' = Contents(held[s])
                 /\ <<held'[t].ptr, held'[t].cu>> # <<held[s].ptr, held[s].cu>>
                 /\ Contents(held[s])' = Contents(held[s])
       /\ \A s \in Slots : \A t \in Slots \ {s} :
            (\/ Clear(s) \/ CudaClear(s)
             \/ \E data \in DataSet : Write(s, data) \/ CudaWrite(s, data))
              => Contents(held[t])' = Contents(held[t])]_vars

C13_MismatchFailsFast ==
    [][\A T \in Types, len \in 1..MaxLen :
         LET node == [idx |-> count, len |-> len]
         IN (/\ Cached(T, len)
             /\ node \in DOMAIN ct
             /\ \/ ct[node].size # SizeOf(T)
                \/ ct[node].align # AlignOf(T))
            => res'.fail = "panic"]_vars

\* C15: when a device is destroyed, its cache entries are released before its
\* device-level handles are destroyed: at the step that destroys the cuBLAS
\* handle or the stream no entry is left in the cache, and no step releases a
\* cache entry once the handle or the stream is destroyed.
C15_CacheBeforeHandles ==
    [][/\ ((cdev.handle /\ ~cdev'.handle) \/ (cdev.stream /\ ~cdev'.stream))
            => cdev.cache = << >>
       /\ (\E k \in DOMAIN cdev.cache : cdev.cache[k] \notin DOMAIN dmem')
            => cdev.handle /\ cdev.stream]_vars

\* C21: for every buffer and every data of the buffer's length, a write of
\* the data that returns leaves the buffer holding exactly the data, and a
\* read that returns hands out exactly what the buffer holds, on the CPU and
\* on the CUDA device: write followed by read returns the data.
C21_WriteThenRead ==
    [][\A s \in Slots :
         /\ \A data \in DataSet :
              (/\ res'.op \in {"write", "cuda_write"}
               /\ res'.fail = "none"
               /\ Len(data) = held[s].len
               /\ (Write(s, data) \/ CudaWrite(s, data)))
                => Contents(held[s])' = data
         /\ (/\ res'.op \in {"read", "cuda_read"}
             /\ res'.fail = "none"
             /\ (Read(s) \/ CudaRead(s)))
              => res'.val = Contents(held[s])]_vars

\* a read of a CUDA buffer has returned non-default data of the buffer's
\* length while a CPU buffer holds non-default data too
C21_Witness ==
    /\ res.op = "cuda_read" /\ res.fail = "none"
    /\ Len(res.val) = MaxLen
    /\ \E i \in DOMAIN res.val : res.val[i] # 0
    /\ \E s \in Slots, t \in Slots :
         /\ held[s].dev = "CUDA" /\ Contents(held[s]) = res.val
         /\ held[t].dev = "CPU" /\ \E i \in 1..held[t].len : Contents(held[t])[i] # 0

\* C22: a write with data whose length differs from the buffer's len is
\* rejected on every backend: the call fails and host and device memory are
\* as they were, so nothing is written past the buffer's allocation and no
\* part of the data is written.
C22_LengthMismatchRejected ==
    [][\A s \in Slots, data \in DataSet :
         (/\ res'.op \in {"write", "cuda_write"}
          /\ Len(data) # held[s].len
          /\ (Write(s, data) \/ CudaWrite(s, data)))
           => /\ res'.fail = "panic"
              /\ UNCHANGED <<hmem, dmem>>]_vars

\* C23: a clear that returns leaves the buffer reading the element type's
\* default value len times, on the CPU and on the CUDA device, and a clear of
\* a buffer that already reads so changes no memory: clearing twice leaves
\* what clearing once leaves.
C23_ClearDefaults ==
    [][\A s \in Slots :
         (/\ res'.op \in {"clear", "cuda_clear"}
          /\ res'.fail = "none"
          /\ (Clear(s) \/ CudaClear(s)))
           => /\ Contents(held[s])' = Zeros(held[s].len)
              /\ held' = held
              /\ Contents(held[s]) = Zeros(held[s].len) => UNCHANGED <<hmem, dmem>>]_vars

\* a CPU buffer of the longest len has been cleared while the other buffer
\* still holds non-default data
C23_Witness ==
    /\ res = Returned("clear", << >>)
    /\ \E s \in Slots, t \in Slots :
         /\ held[s].dev = "CPU" /\ held[s].len = MaxLen
         /\ Contents(held[s]) = Zeros(MaxLen)
         /\ held[t].dev = "CPU" /\ held[t].len = MaxLen
         /\ \A i \in 1..MaxLen : Contents(held[t])[i] # 0

\* C24: a failure of the driver during an allocation or a transfer is handed
\* to the caller of alloc, with_data, read, write or clear as an error value:
\* a call whose arguments are valid (a len above 0, non-empty data, a buffer
\* of the device, data of the buffer's len) never ends in a panic.
C24_DriverFailureIsError ==
    [][\A s \in Slots :
         /\ \A len \in 1..MaxLen :
              (/\ res'.op \in {"cuda_alloc", "cl_alloc"}
               /\ (CudaAlloc(s, len) \/ CLAlloc(s, len)))
                => res'.fail # "panic"
         /\ \A data \in DataSet \ {<< >>} :
              /\ (/\ res'.op \in {"cuda_with_data", "cl_with_data"}
                  /\ (CudaWithData(s, data) \/ CLWithData(s, data)))
                   => res'.fail # "panic"
              /\ (/\ res'.op = "cuda_write"
                  /\ CuPtr(held[s]) # 0
                  /\ Len(data) = held[s].len
                  /\ CudaWrite(s, data))
                   => res'.fail # "panic"
         /\ (/\ res'.op \in {"cuda_read", "cuda_clear"}
             /\ CuPtr(held[s]) # 0
             /\ (CudaRead(s) \/ CudaClear(s)))
              => res'.fail # "panic"]_vars

\* C25: when the host allocator returns a null pointer, the alloc of the CPU
\* reports the failure before anything is written through that pointer: no
\* call ends in a write through a null pointer, and no buffer of the CPU is
\* handed out with a null host pointer.
C25_NoNullWrite ==
    /\ res.fail # "nullwrite"
    /\ \A s \in Slots : held[s].dev = "CPU" => held[s].ptr # 0


\* C26: read, write, clear and clone_buf of the CudaDevice check the CUDA
\* pointer of the buffer before they use it: on a buffer whose CUDA pointer is
\* zero each of them panics, no buffer is handed out and device memory is
\* left as it was.
C26_ZeroHandleRejected ==
    [][\A s \in Slots :
         (/\ res'.op \in {"cuda_read", "cuda_write", "cuda_clear", "cuda_clone_buf"}
          /\ held[s] # NoHandle
          /\ CuPtr(held[s]) = 0
          /\ \/ CudaRead(s)
             \/ CudaClear(s)
             \/ \E data \in DataSet : CudaWrite(s, data)
             \/ \E t \in Slots : CudaCloneBuf(s, t))
           => /\ res'.fail = "panic"
              /\ UNCHANGED <<held, dmem>>]_vars


\* C27: the matrix a cache get returns, on a hit as on a miss, is the entry
\* stored under the requested node: it has the requested dims, and the
\* allocation behind its pointer has dims.0 * dims.1 elements; a request is
\* never served by memory of another size.
C27_SlotOfRequestedSize ==
    [][\A d \in DOMAIN devs, dims \in DimsSet :
         CacheGet(d, dims) =>
           \E k \in Lookup(nodes', NodeNew(count, dims).node) :
             /\ nodes'[k].ptr = buf'.ptr
             /\ nodes'[k].dims = dims
             /\ buf'.ptr \in DOMAIN sz'
             /\ sz'[buf'.ptr] = Size(dims)]_vars


\* C28 as stated: get_current(device_idx) returns the device stored at
\* device_idx when device_idx is below the number of devices of the list, and
\* the InvalidDeviceIdx error otherwise; a call on a list that holds a device
\* does not run the discovery and does not change the list.
C28_IndexDecides ==
    [][\A device_idx \in 0..MaxCL :
         GetCurrent(device_idx) =>
           /\ IF device_idx < Len(current_devices')
              THEN /\ clres'.fail = "none"
                   /\ clres'.val = current_devices'[device_idx + 1]
              ELSE clres'.fail = "InvalidDeviceIdx"
           /\ current_devices # << >> =>
                syncs' = syncs /\ current_devices' = current_devices]_vars

\* C28, amended: a get_current whose sync_current fails passes that failure
\* on; every other get_current returns the device stored at device_idx when
\* device_idx is below the length of the list, and InvalidDeviceIdx
\* otherwise. sync_current can only fail on an empty list: a call on a list
\* that holds a device does not run the discovery, does not change the list
\* and is decided by the index alone.
C28_IndexDecidesAfterSync ==
    [][\A device_idx \in 0..MaxCL :
         GetCurrent(device_idx) =>
           /\ clres'.fail \notin {"error", "panic"} =>
                IF device_idx < Len(current_devices')
                THEN /\ clres'.fail = "none"
                     /\ clres'.val = current_devices'[device_idx + 1]
                ELSE clres'.fail = "InvalidDeviceIdx"
           /\ clres'.fail \in {"error", "panic"} =>
                syncs' = syncs + 1 /\ current_devices = << >>
           /\ current_devices # << >> =>
                /\ syncs' = syncs
                /\ current_devices' = current_devices
                /\ clres'.fail \in {"none", "InvalidDeviceIdx"}]_vars

\* a get_current has returned InvalidDeviceIdx for the index MaxCL on a list
\* of MaxCL devices that one run of the discovery filled
C28_Witness ==
    /\ Len(current_devices) = MaxCL
    /\ syncs = 1
    /\ clres = [op |-> "get_current", fail |-> "InvalidDeviceIdx", val |-> 0]


\* C29: the drop of a CPU removes from the cache table exactly the entries
\* whose stored pointer is one of the pointers the device recorded; every
\* other entry stays as it was, and no entry that is left refers to an
\* address the drop freed.
C29_DropRemovesOwnEntries ==
    [][\A d \in DOMAIN devs :
         (DropCPU(d) /\ ~halted') =>
           LET freed == Range(devs[d].ptrs)
               gone == {k \in DOMAIN nodes : nodes[k].ptr \in freed}
           IN /\ DOMAIN nodes' = DOMAIN nodes \ gone
              /\ \A k \in DOMAIN nodes' : nodes'[k] = nodes[k]
              /\ \A k \in DOMAIN nodes' : nodes'[k].ptr \notin freed
              /\ devs'[d].ptrs = << >>]_vars

\* the last call was the drop of cpu1 (it freed an address that drop_buf had
\* freed before, which only a freeing call does, and unlike drop_buf and
\* dealloc_cache it left a Buffer with user code and an entry in the table):
\* the entry that cpu2 inserted is left, on memory that is allocated
C29_Witness ==
    /\ devs["cpu1"].st = "absent"
    /\ devs["cpu2"].st = "live"
    /\ dfree
    /\ ~halted
    /\ buf.flag = "Cache"
    /\ \E k \in DOMAIN nodes :
         /\ DOMAIN nodes = {k}
         /\ nodes[k].by = "cpu2"
         /\ nodes[k].ptr \in live


\* C30: the global CUDA device count is the number of InternCudaDevice
\* instances that live, whatever CudaDevice::new calls (that return a device
\* or an error), clones and drops of handles have been made.
C30_CountIsLiveDevices == device_count = Cardinality(DOMAIN inner)


\* C32: when sync_current returns an error (the platform query, the device
\* query or the creation of a device failed), the device list is left empty,
\* so that the next call runs the whole discovery again.
C32_ErrorLeavesListEmpty ==
    [][\A device_idx \in 0..MaxCL :
         (/\ GetCurrent(device_idx) \/ GetCurrentMut(device_idx)
          /\ clres'.fail = "error")
           => current_devices' = << >>]_vars


\* C33: every Matrix a constructor returns (Matrix::new, from a pointer and
\* dims, from a device with dims and an array or a Vec, or a cache get) has
\* a data Buffer of dims.0 * dims.1 elements: as_cpu_slice exposes exactly
\* size() elements.
C33_LenIsDimsProduct ==
    LET m == [data |-> [len |-> matrix.len], dims |-> matrix.dims]
    IN (matrix.op # "none" /\ matrix.fail = "none") => AsCpuSliceLen(m) = MatrixSize(m)


\* C31: over any sequence of cache gets, CLDevice::drop(buffer) calls and
\* dealloc_cache calls, every OpenCL memory object is released at most once,
\* and no memory object that has been released is left in output_nodes.
C31_ReleasedAtMostOnce ==
    /\ \A mem \in DOMAIN clmem : clmem[mem] <= 1
    /\ \A node \in DOMAIN output_nodes : clmem[output_nodes[node]] = 0
====
